---- MODULE Spec2Model ----
(***************************************************************************)
(* Enhanced RAG ingestion and retrieval (backend/enhanced_rag.py on top of *)
(* backend/rag_config.py), and the admin job that drives it                *)
(* (backend/admin_secure.py).                                              *)
(*                                                                         *)
(* A document is processed into EnhancedChunk records                      *)
(* (process_document_enhanced), the records are embedded and upserted into *)
(* the "immigration_docs_enhanced" collection (store_enhanced_chunks), and *)
(* the collection is queried (semantic_search_enhanced).                   *)
(*                                                                         *)
(* Texts are abstract paragraph tokens, all shorter than the 8000          *)
(* characters generate_embedding truncates at.  Scores and freshness       *)
(* values are in tenths (0.5 is 5, 1.0 is 10).                             *)
(*                                                                         *)
(* The module holds several state machines over disjoint variables, each   *)
(* with a specification of its own: the calls on the collection (Spec),    *)
(* the relationship queries (MapperSpec, MapperFairSpec), ingestion and    *)
(* retrieval under a running clock (TemporalSpec), the embedding requests  *)
(* of the process (ThrottleSpec), the admin vectorization job (BatchSpec), *)
(* the size-bounded chunker (ChunkerSpec), ingestion in full detail        *)
(* (EnrichSpec), the insight and path queries (InsightSpec, AggregateSpec, *)
(* PathSpec), the translation cache (TranslationSpec), the deduplicating   *)
(* batch vectorization (SafeBatchSpec), avatar billing (AvatarSpec) and    *)
(* the daily question quota (QuotaSpec).                                   *)
(***************************************************************************)
EXTENDS Integers, Sequences, FiniteSets, TLC

VARIABLES
    processed,   \* the process_document_enhanced call that has just returned
    store,       \* points of the collection immigration_docs_enhanced
    lastStore,   \* the store_enhanced_chunks call that has just returned
    lastSearch,  \* the semantic_search_enhanced call that has just returned
    graph,       \* relationships the RelationshipMapper holds
    walk,        \* the RelationshipMapper query that is running or has returned
    today,       \* the day number of the wall clock
    tracked,     \* the indexed document the clock runs over: facts and payload
    lastFresh,   \* the freshness-filtered search that has just returned
    pipelines,   \* the ProductionRAGConfig instances of the process: throttlers
    issued,      \* embedding requests sent in the current throttle period
    simpleIndex, \* ids of the points of the collection immigration_docs
    job,         \* the vectorize_content_background run that has just ended
    chunked,     \* a text given to smart_chunk_text, and the chunks returned
    enriched,    \* the process_document_enhanced call, in full detail, that has just returned
    insight,     \* the get_entity_insights call that has just returned, or the hits to aggregate
    userPath,    \* the validate_user_path call that has just returned
    translation, \* the translation cache, its clock, and the last translate_text call
    safeBatch,   \* the collection immigration_docs and the last vectorize_batch_safe run
    avatar,      \* the user_usage rows of the month and the last track_avatar_session call
    quota        \* the daily question counts and the ai_chat requests in flight

\* The variables of the ingestion and retrieval calls, of the relationship
\* queries, of ingestion and retrieval under a running clock, of the
\* embedding requests of the process, of the admin vectorization job, and
\* of the insight and path queries.  The other machines have one variable
\* each.
ragVars == <<processed, store, lastStore, lastSearch>>

mapperVars == <<graph, walk>>

temporalVars == <<today, tracked, lastFresh>>

throttleVars == <<pipelines, issued>>

batchVars == <<simpleIndex, job>>

insightVars == <<insight, userPath>>

vars == <<ragVars, mapperVars, temporalVars, throttleVars, batchVars, insightVars,
          chunked, enriched, translation, safeBatch, avatar, quota>>

\* What the calls of one group leave alone.
exceptRag ==
    <<mapperVars, temporalVars, throttleVars, batchVars, insightVars,
      chunked, enriched, translation, safeBatch, avatar, quota>>

exceptMapper ==
    <<ragVars, temporalVars, throttleVars, batchVars, insightVars,
      chunked, enriched, translation, safeBatch, avatar, quota>>

exceptTemporal ==
    <<ragVars, mapperVars, throttleVars, batchVars, insightVars,
      chunked, enriched, translation, safeBatch, avatar, quota>>

exceptThrottle ==
    <<ragVars, mapperVars, temporalVars, batchVars, insightVars,
      chunked, enriched, translation, safeBatch, avatar, quota>>

\* The job writes to the enhanced collection through store_enhanced_chunks.
exceptBatch ==
    <<processed, lastStore, lastSearch, mapperVars, temporalVars, throttleVars,
      insightVars, chunked, enriched, translation, safeBatch, avatar, quota>>

exceptInsight ==
    <<ragVars, mapperVars, temporalVars, throttleVars, batchVars,
      chunked, enriched, translation, safeBatch, avatar, quota>>

exceptChunker ==
    <<ragVars, mapperVars, temporalVars, throttleVars, batchVars, insightVars,
      enriched, translation, safeBatch, avatar, quota>>

exceptEnrich ==
    <<ragVars, mapperVars, temporalVars, throttleVars, batchVars, insightVars,
      chunked, translation, safeBatch, avatar, quota>>

exceptTranslation ==
    <<ragVars, mapperVars, temporalVars, throttleVars, batchVars,
      insightVars, chunked, enriched, safeBatch, avatar, quota>>

exceptSafeBatch ==
    <<ragVars, mapperVars, temporalVars, throttleVars, batchVars,
      insightVars, chunked, enriched, translation, avatar, quota>>

exceptAvatar ==
    <<ragVars, mapperVars, temporalVars, throttleVars, batchVars,
      insightVars, chunked, enriched, translation, safeBatch, quota>>

exceptQuota ==
    <<ragVars, mapperVars, temporalVars, throttleVars, batchVars,
      insightVars, chunked, enriched, translation, safeBatch, avatar>>

-----------------------------------------------------------------------------
(* Bounds of the model *)

MaxChunks == 2
NumDocs == 2
NumQueries == 3

Docs == 1..NumDocs
Queries == 1..NumQueries

\* A document text: n paragraphs (paragraph k has the text token k-1), and
\* whether the dates it mentions include an expiration date in the past.
Contents == [n : 1..MaxChunks, expired : BOOLEAN]

-----------------------------------------------------------------------------
(* Program constants *)

ScoreThreshold == 5
DefaultLimit == 5

-----------------------------------------------------------------------------
(* Collaborators that are imported by enhanced_rag.py                     *)

\* SmartChunker.smart_chunk_document: one chunk per paragraph, in reading
\* order, with the entities found in it.
SmartChunkDocument(title, content, source_url) ==
    [k \in 1..content.n |->
        [content      |-> k - 1,
         chunk_type   |-> IF k - 1 = 0 THEN "heading-section" ELSE "narrative",
         form_numbers |-> IF (k - 1) % 2 = 0 THEN {"I-130"} ELSE {},
         visa_types   |-> IF (k - 1) % 2 = 1 THEN {"H-1B"} ELSE {}]]

\* TemporalTracker.get_temporal_summary over the facts of the full text.
GetTemporalSummary(content) ==
    [is_current      |-> ~content.expired,
     freshness_score |-> IF content.expired THEN 0 ELSE 10]

\* Cosine similarity of a query embedding and a stored embedding, as the
\* embedding model and the vector store compute it.  A zero vector has no
\* direction: its similarity to anything is 0.
Score(qvec, rvec) ==
    LET query == qvec.of
        text == rvec.of
    IN  IF qvec.zero \/ rvec.zero THEN 0
        ELSE CASE query % 3 = 1 -> 8
               [] query % 3 = 2 -> IF 9 - 3 * text > 0 THEN 9 - 3 * text ELSE 0
               [] OTHER         -> IF 3 + 3 * text < 10 THEN 3 + 3 * text ELSE 10

-----------------------------------------------------------------------------
(* process_document_enhanced *)

ProcessDocumentEnhancedNoIndex(title, content, source_url) ==
    LET smart_chunks == SmartChunkDocument(title, content, source_url)
        temporal_summary == GetTemporalSummary(content)
    IN  [i \in 1..Len(smart_chunks) |->
            [content         |-> smart_chunks[i].content,
             source_url      |-> source_url,
             document_title  |-> title,
             chunk_type      |-> smart_chunks[i].chunk_type,
             chunk_index     |-> 0,
             form_numbers    |-> smart_chunks[i].form_numbers,
             visa_types      |-> smart_chunks[i].visa_types,
             is_current      |-> temporal_summary.is_current,
             freshness_score |-> temporal_summary.freshness_score]]

ProcessDocumentEnhanced(title, content, source_url) ==
    LET smart_chunks == SmartChunkDocument(title, content, source_url)
        temporal_summary == GetTemporalSummary(content)
    IN  [i \in 1..Len(smart_chunks) |->
            [content         |-> smart_chunks[i].content,
             source_url      |-> source_url,
             document_title  |-> title,
             chunk_type      |-> smart_chunks[i].chunk_type,
             chunk_index     |-> i - 1,
             form_numbers    |-> smart_chunks[i].form_numbers,
             visa_types      |-> smart_chunks[i].visa_types,
             is_current      |-> temporal_summary.is_current,
             freshness_score |-> temporal_summary.freshness_score]]

NotHeld == [held |-> FALSE, doc |-> 0, content |-> [n |-> 0, expired |-> FALSE],
            chunks |-> <<>>]

NoStoreCall == [called |-> FALSE, doc |-> 0, chunks |-> <<>>, embFail |-> {},
                firstBad |-> 0, ok |-> FALSE, priorPass |-> FALSE, idxBefore |-> {},
                embedCalls |-> <<>>, upsertCalls |-> 0]

NoFilters == [has |-> {}, form_numbers |-> {}, visa_types |-> {},
              chunk_type |-> "", current_only |-> FALSE, min_freshness |-> 0]

NoSearchCall == [called |-> FALSE, limit |-> 0, filters |-> NoFilters,
                 outcome |-> "none", results |-> <<>>]

\* No call has a result that its caller has not taken yet.
Idle == ~processed.held /\ ~lastStore.called /\ ~lastSearch.called

\* The caller takes the returned value and goes on.
Return ==
    /\ ~Idle
    /\ processed' = NotHeld
    /\ lastStore' = NoStoreCall
    /\ lastSearch' = NoSearchCall
    /\ UNCHANGED <<store, exceptRag>>

\* process_document_enhanced(title, content, source_url) for document d with
\* the text c; the title and the URL both identify the document.
Process ==
    /\ Idle
    /\ \E d \in Docs, c \in Contents :
          processed' = [held |-> TRUE, doc |-> d, content |-> c,
                        chunks |-> ProcessDocumentEnhanced(d, c, d)]
    /\ UNCHANGED <<store, lastStore, lastSearch, exceptRag>>

-----------------------------------------------------------------------------
(* generate_embedding *)

RaisedEmbedding == [raised |-> TRUE, zero |-> TRUE, of |-> -1]

GenerateEmbeddingRaises(text, fails) ==
    IF fails THEN RaisedEmbedding
    ELSE [raised |-> FALSE, zero |-> FALSE, of |-> text]

\* The OpenAI call either returns the embedding of the text or throws; the
\* except branch returns a vector of zeros.
GenerateEmbedding(text, fails) ==
    IF fails THEN [raised |-> FALSE, zero |-> TRUE, of |-> -1]
    ELSE [raised |-> FALSE, zero |-> FALSE, of |-> text]

\* The requests generate_embedding sends for one text: client.embeddings
\* .create is called once, and the except branch returns without another
\* call.
EmbeddingRequests(fails) == IF fails THEN 1 ELSE 1

-----------------------------------------------------------------------------
(* store_enhanced_chunks *)

\* The upsert requests of one store_enhanced_chunks call that got as far as
\* the upsert: one, whether it throws or not.
UpsertRequests(firstBad) == IF firstBad # 0 THEN 1 ELSE 1

\* The id of the point made from the i-th record (i counts from 0).
PointIdAppend(i, chunk) == Cardinality(store) + i

PointId(i, chunk) == i

\* asdict + _make_serializable: every field of a record is a string, a
\* number, a boolean or a list of strings, which json.dumps accepts, so the
\* value is kept as it is.
MakeSerializable(chunk) == chunk

\* qdrant_client.upsert(collection_name, points): a point replaces the point
\* with the same id.  firstBad = 0: every point is accepted.  Otherwise the
\* call throws at point firstBad, and the points before it are written or
\* not (partial).
Upsert(st, points, firstBad, partial) ==
    LET applied == IF firstBad = 0 THEN 1..Len(points)
                   ELSE IF partial THEN 1..(firstBad - 1) ELSE {}
        ids == {points[i].id : i \in applied}
    IN  {p \in st : p.id \notin ids} \cup {points[i] : i \in applied}

\* lastStore.doc: the document the records of the list belong to;
\* lastStore.priorPass: before the call, the collection already held every
\* record of the list (an earlier pass over the same document text);
\* lastStore.idxBefore: the chunk_index values it held for the document.

\* The points of the collection that belong to document d, and their payloads.
PointsOf(st, d) == {p \in st : p.payload.source_url = d}

PayloadsOf(st, d) == {p.payload : p \in PointsOf(st, d)}

IdxOf(st, d) == {p.payload.chunk_index : p \in PointsOf(st, d)}

Range(f) == {f[i] : i \in DOMAIN f}

\* store_enhanced_chunks on the collection st: the collection afterwards and
\* the value returned.  embFail: the records whose embedding call throws.
\* firstBad, partial: the outcome of the upsert.
StoreResult(st, enhanced_chunks, embFail, firstBad, partial) ==
    LET embeddings == [i \in 1..Len(enhanced_chunks) |->
                         GenerateEmbedding(enhanced_chunks[i].content, i \in embFail)]
        points == [i \in 1..Len(enhanced_chunks) |->
                     [id      |-> PointId(i - 1, enhanced_chunks[i]),
                      vector  |-> embeddings[i],
                      payload |-> MakeSerializable(enhanced_chunks[i])]]
        raised == \E i \in 1..Len(enhanced_chunks) : embeddings[i].raised
    IN  [store |-> IF raised THEN st ELSE Upsert(st, points, firstBad, partial),
         ok    |-> ~raised /\ firstBad = 0,
         embedCalls  |-> [i \in 1..Len(enhanced_chunks) |->
                            EmbeddingRequests(i \in embFail)],
         upsertCalls |-> IF raised THEN 0 ELSE UpsertRequests(firstBad)]

StoreEnhancedChunks ==
    /\ Idle
    /\ \E enhanced_chunks \in {ProcessDocumentEnhanced(d, c, d) :
                                   d \in Docs, c \in Contents} :
       \E embFail \in SUBSET (1..Len(enhanced_chunks)),
          firstBad \in 0..Len(enhanced_chunks), partial \in BOOLEAN :
          LET doc == enhanced_chunks[1].source_url
              result == StoreResult(store, enhanced_chunks, embFail, firstBad, partial)
          IN  /\ partial => firstBad > 1
              /\ store' = result.store
              /\ lastStore' = [called    |-> TRUE,
                               doc       |-> doc,
                               chunks    |-> enhanced_chunks,
                               embFail   |-> embFail,
                               firstBad  |-> firstBad,
                               ok        |-> result.ok,
                               priorPass |-> Range(enhanced_chunks)
                                                \subseteq PayloadsOf(store, doc),
                               idxBefore |-> IdxOf(store, doc),
                               embedCalls  |-> result.embedCalls,
                               upsertCalls |-> result.upsertCalls]
    /\ UNCHANGED <<processed, lastSearch, exceptRag>>

\* cleanup_enhanced_collection: delete_collection either succeeds or throws
\* (logged as a warning).
CleanupEnhancedCollection ==
    /\ Idle
    /\ \E fails \in BOOLEAN : store' = IF fails THEN store ELSE {}
    /\ UNCHANGED <<processed, lastStore, lastSearch, exceptRag>>

-----------------------------------------------------------------------------
(* semantic_search_enhanced *)

KnownFilterKeys == {"form_numbers", "visa_types", "chunk_type", "current_only",
                    "min_freshness"}

\* The filter dictionaries passed by callers: has is the set of keys of the
\* dictionary, the other fields are the values of the keys it has.
FilterInputs ==
    { NoFilters,
      [NoFilters EXCEPT !.has = {"current_only"}, !.current_only = TRUE],
      [NoFilters EXCEPT !.has = {"current_only"}],
      [NoFilters EXCEPT !.has = {"is_current"}],
      [NoFilters EXCEPT !.has = {"min_freshness"}, !.min_freshness = 5],
      [NoFilters EXCEPT !.has = {"form_numbers", "chunk_type"},
                        !.form_numbers = {"I-130"}, !.chunk_type = "heading-section"],
      [NoFilters EXCEPT !.has = {"visa_types"}, !.visa_types = {"H-1B"}] }

NoneFilter == [must |-> <<>>]

BuildSearchFilterNoCurrent(filters) ==
    LET conditions ==
            (IF "form_numbers" \in filters.has
             THEN <<[key |-> "form_numbers", op |-> "any", val |-> filters.form_numbers]>>
             ELSE <<>>)
         \o (IF "visa_types" \in filters.has
             THEN <<[key |-> "visa_types", op |-> "any", val |-> filters.visa_types]>>
             ELSE <<>>)
         \o (IF "chunk_type" \in filters.has
             THEN <<[key |-> "chunk_type", op |-> "value", val |-> filters.chunk_type]>>
             ELSE <<>>)
         \o (IF "min_freshness" \in filters.has
             THEN <<[key |-> "freshness_score", op |-> "gte", val |-> filters.min_freshness]>>
             ELSE <<>>)
    IN  IF Len(conditions) > 0 THEN [must |-> conditions] ELSE NoneFilter

\* _build_search_filter: one condition per key it knows; any other key of
\* the dictionary is not looked at.
BuildSearchFilter(filters) ==
    LET conditions ==
            (IF "form_numbers" \in filters.has
             THEN <<[key |-> "form_numbers", op |-> "any", val |-> filters.form_numbers]>>
             ELSE <<>>)
         \o (IF "visa_types" \in filters.has
             THEN <<[key |-> "visa_types", op |-> "any", val |-> filters.visa_types]>>
             ELSE <<>>)
         \o (IF "chunk_type" \in filters.has
             THEN <<[key |-> "chunk_type", op |-> "value", val |-> filters.chunk_type]>>
             ELSE <<>>)
         \o (IF "current_only" \in filters.has /\ filters.current_only
             THEN <<[key |-> "is_current", op |-> "value", val |-> TRUE]>>
             ELSE <<>>)
         \o (IF "min_freshness" \in filters.has
             THEN <<[key |-> "freshness_score", op |-> "gte", val |-> filters.min_freshness]>>
             ELSE <<>>)
    IN  IF Len(conditions) > 0 THEN [must |-> conditions] ELSE NoneFilter

\* qdrant_client.search(collection_name, query_vector, limit, query_filter,
\* score_threshold): the points that satisfy every condition of the filter
\* and score at least the threshold, best score first, at most limit of them.
CondHolds(payload, cond) ==
    CASE cond.op = "any"   -> payload[cond.key] \cap cond.val # {}
      [] cond.op = "value" -> payload[cond.key] = cond.val
      [] OTHER             -> payload[cond.key] >= cond.val

\* The lists the store may answer with.  Points of equal score come in any
\* order.  The store is not specified for a negative limit: it may return a
\* ranked list of any length (or throw, see the action).
RankedLists(st, qvec, flt, threshold, limit) ==
    LET matches ==
            {p \in st : /\ \A i \in DOMAIN flt.must : CondHolds(p.payload, flt.must[i])
                        /\ Score(qvec, p.vector) >= threshold}
        m == Cardinality(matches)
        lens == IF limit < 0 THEN 0..m ELSE {IF limit < m THEN limit ELSE m}
    IN  UNION { { s \in [1..k -> matches] :
                    /\ \A i, j \in 1..k : i < j =>
                          /\ s[i] # s[j]
                          /\ Score(qvec, s[i].vector) >= Score(qvec, s[j].vector)
                    /\ \A p \in matches : (\A i \in 1..k : s[i] # p) =>
                          \A i \in 1..k : Score(qvec, s[i].vector) >= Score(qvec, p.vector) }
              : k \in lens }

EnhancedResultDefaults(hit, qvec) ==
    [content  |-> hit.payload.content,
     score    |-> Score(qvec, hit.vector),
     metadata |-> [document_title  |-> hit.payload.document_title,
                   source_url      |-> hit.payload.source_url,
                   chunk_type      |-> hit.payload.chunk_type,
                   form_numbers    |-> {},
                   visa_types      |-> {},
                   is_current      |-> TRUE,
                   freshness_score |-> 10]]

\* The dictionary built for one hit.
EnhancedResult(hit, qvec) ==
    [content  |-> hit.payload.content,
     score    |-> Score(qvec, hit.vector),
     metadata |-> [document_title  |-> hit.payload.document_title,
                   source_url      |-> hit.payload.source_url,
                   chunk_type      |-> hit.payload.chunk_type,
                   form_numbers    |-> hit.payload.form_numbers,
                   visa_types      |-> hit.payload.visa_types,
                   is_current      |-> hit.payload.is_current,
                   freshness_score |-> hit.payload.freshness_score]]

\* fault: "embedding" when the embedding call for the query throws, "store"
\* when the store call throws or its result cannot be awaited, "none"
\* otherwise.  Every exception is caught and answered with the empty list;
\* the function has no path that passes an error to its caller.
SemanticSearchEnhanced ==
    /\ Idle
    /\ \E query \in Queries, limit \in {-1, 1, DefaultLimit}, filters \in FilterInputs,
          fault \in {"none", "embedding", "store"} :
          LET query_embedding == GenerateEmbedding(query, fault = "embedding")
              search_filter == IF filters.has # {} THEN BuildSearchFilter(filters)
                               ELSE NoneFilter
              answers == IF query_embedding.raised \/ fault = "store" THEN {<<>>}
                         ELSE RankedLists(store, query_embedding, search_filter,
                                          ScoreThreshold, limit)
          IN  \E search_result \in answers :
                lastSearch' =
                  [called  |-> TRUE,
                   limit   |-> limit,
                   filters |-> filters,
                   outcome |-> "results",
                   results |-> [i \in 1..Len(search_result) |->
                                  EnhancedResult(search_result[i], query_embedding)]]
    /\ UNCHANGED <<processed, store, lastStore, exceptRag>>

-----------------------------------------------------------------------------
(* RelationshipMapper (relationship_mapper.py): the relationship graph and  *)
(* the queries enhanced_rag.py makes on it                                  *)

\* The entities of the vocabulary, in a fixed order.
EntityVocabulary == <<"I-130", "I-485", "H-1B">>

Entities == Range(EntityVocabulary)

MaxEdges == 3
MaxPending == 8

\* An entity may require or lead to itself; a conflict joins two entities.
Relationships ==
    {r \in [source : Entities, target : Entities,
            type : {"requires", "leads_to", "conflicts_with"}] :
        r.type = "conflicts_with" => r.source # r.target}

RECURSIVE GraphsUpTo(_)
\* The graphs of at most k relationships.
GraphsUpTo(k) ==
    IF k = 0 THEN {{}}
    ELSE LET smaller == GraphsUpTo(k - 1)
         IN  smaller \cup {g \cup {r} : g \in smaller, r \in Relationships}

\* The graphs extraction has built: at most MaxEdges relationships; cycles
\* and self-loops are among them.
Graphs == GraphsUpTo(MaxEdges)

\* The targets of the edges of one type that leave entity e, in vocabulary
\* order.
Targets(g, e, type) ==
    SelectSeq(EntityVocabulary,
              LAMBDA t : [source |-> e, target |-> t, type |-> type] \in g)

\* walk.todo: the entities (get_entity_dependencies) or the partial paths
\* (get_process_flow) still to be expanded; walk.out: the list built so far.
NoWalk == [op |-> "none", entity |-> "", entities |-> {}, max_depth |-> 0,
           todo |-> <<>>, visited |-> {}, out |-> <<>>,
           verdict |-> [valid |-> TRUE, conflicts |-> {}, missing_prerequisites |-> {}],
           running |-> FALSE]

MapperIdle == walk.op = "none"

\* The query returns when nothing is left to expand.
Settle(w) == [w EXCEPT !.running = (w.todo # <<>>)]

GetEntityDependencies ==
    /\ MapperIdle
    /\ \E entity \in Entities :
          walk' = [NoWalk EXCEPT !.op = "dependencies", !.entity = entity,
                                 !.todo = <<entity>>, !.running = TRUE]
    /\ UNCHANGED <<graph, exceptMapper>>

VisitUnguarded(w, g) ==
    LET cur == Head(w.todo)
        prereqs == Targets(g, cur, "requires")
        fresh == SelectSeq(prereqs, LAMBDA t : t \notin Range(w.out))
    IN  [w EXCEPT !.out = @ \o fresh, !.todo = prereqs \o Tail(w.todo)]

\* One step of the traversal of the requires edges: an entity that was
\* visited before is dropped, a new one is marked and its prerequisites are
\* listed (once each) and queued.
Visit(w, g) ==
    LET cur == Head(w.todo)
        prereqs == Targets(g, cur, "requires")
        fresh == SelectSeq(prereqs, LAMBDA t : t \notin Range(w.out))
    IN  IF cur \in w.visited
        THEN [w EXCEPT !.todo = Tail(w.todo)]
        ELSE [w EXCEPT !.visited = @ \cup {cur}, !.out = @ \o fresh,
                       !.todo = prereqs \o Tail(w.todo)]

DependenciesStep ==
    /\ walk.op = "dependencies"
    /\ walk.running
    /\ Len(walk.todo) <= MaxPending
    /\ walk' = Settle(Visit(walk, graph))
    /\ UNCHANGED <<graph, exceptMapper>>

\* max_depth: 2 as at a call site of get_process_flow (3, the value of the
\* other call sites, cuts no path on a vocabulary of three entities and
\* behaves like 2), and 1, the depth that does cut paths short.
GetProcessFlow ==
    /\ MapperIdle
    /\ \E entity \in Entities, max_depth \in {1, 2} :
          walk' = [NoWalk EXCEPT !.op = "process_flow", !.entity = entity,
                                 !.max_depth = max_depth,
                                 !.todo = << <<entity>> >>, !.running = TRUE]
    /\ UNCHANGED <<graph, exceptMapper>>

ExtendRevisiting(w, g) ==
    LET path == Head(w.todo)
        succ == Targets(g, path[Len(path)], "leads_to")
    IN  IF Len(path) - 1 < w.max_depth /\ succ # <<>>
        THEN [w EXCEPT !.todo = [i \in 1..Len(succ) |-> Append(path, succ[i])]
                                   \o Tail(w.todo)]
        ELSE [w EXCEPT !.todo = Tail(w.todo),
                       !.out = IF Len(path) > 1 THEN Append(@, path) ELSE @]

\* One step of the depth-bounded traversal of the leads_to edges: the path
\* is extended by every successor that is not on it yet, and is listed when
\* it cannot be extended.
Extend(w, g) ==
    LET path == Head(w.todo)
        succ == SelectSeq(Targets(g, path[Len(path)], "leads_to"),
                          LAMBDA t : t \notin Range(path))
    IN  IF Len(path) - 1 < w.max_depth /\ succ # <<>>
        THEN [w EXCEPT !.todo = [i \in 1..Len(succ) |-> Append(path, succ[i])]
                                   \o Tail(w.todo)]
        ELSE [w EXCEPT !.todo = Tail(w.todo),
                       !.out = IF Len(path) > 1 THEN Append(@, path) ELSE @]

ProcessFlowStep ==
    /\ walk.op = "process_flow"
    /\ walk.running
    /\ Len(walk.todo) <= MaxPending
    /\ walk' = Settle(Extend(walk, graph))
    /\ UNCHANGED <<graph, exceptMapper>>

Position(e) == CHOOSE i \in DOMAIN EntityVocabulary : EntityVocabulary[i] = e

ValidateForwardOnly(g, entities) ==
    LET conflicts == {<<r.source, r.target>> :
                        r \in {r \in g : /\ r.type = "conflicts_with"
                                         /\ r.source \in entities
                                         /\ r.target \in entities
                                         /\ Position(r.source) <= Position(r.target)}}
        missing == {<<r.source, r.target>> :
                      r \in {r \in g : /\ r.type = "requires"
                                       /\ r.source \in entities
                                       /\ r.target \notin entities}}
    IN  [valid |-> conflicts = {} /\ missing = {},
         conflicts |-> conflicts, missing_prerequisites |-> missing]

\* validate_entity_combination: the conflicts_with edges with both ends in
\* the input, and the requires edges that leave the input.
Validate(g, entities) ==
    LET conflicts == {<<r.source, r.target>> :
                        r \in {r \in g : /\ r.type = "conflicts_with"
                                         /\ r.source \in entities
                                         /\ r.target \in entities}}
        missing == {<<r.source, r.target>> :
                      r \in {r \in g : /\ r.type = "requires"
                                       /\ r.source \in entities
                                       /\ r.target \notin entities}}
    IN  [valid |-> conflicts = {} /\ missing = {},
         conflicts |-> conflicts, missing_prerequisites |-> missing]

ValidateEntityCombination ==
    /\ MapperIdle
    /\ \E entities \in SUBSET Entities :
          walk' = [NoWalk EXCEPT !.op = "validate", !.entities = entities,
                                 !.verdict = Validate(graph, entities)]
    /\ UNCHANGED <<graph, exceptMapper>>

\* The caller takes the returned list or verdict.
MapperReturn ==
    /\ ~MapperIdle
    /\ ~walk.running
    /\ walk' = NoWalk
    /\ UNCHANGED <<graph, exceptMapper>>

-----------------------------------------------------------------------------
(* TemporalTracker (temporal_tracker.py), and the temporal fields of a     *)
(* record from ingestion to retrieval while the clock runs.  Dates are day  *)
(* numbers; a freshness score is counted in 365ths (1.0 is 365).            *)

FreshnessHorizon == 365
FreshnessOne == FreshnessHorizon

\* A fact whose date could not be parsed, and a summary without a date.
NoDate == -1000

MaxDay == 366
MaxIngestDay == 1
MaxFacts == 2

\* extract_temporal_info: the facts found in a text processed on that day.
\* The dates the text mentions: a year back, yesterday, the day itself,
\* tomorrow, or a date that could not be parsed.
TemporalInfos(day) ==
    LET facts == [content_type : {"effective", "expiration"},
                  parsed_date  : {day + o : o \in {-FreshnessHorizon, -1, 0, 1}}
                                    \cup {NoDate}]
    IN  {{}} \cup {Range(f) : f \in [1..MaxFacts -> facts]}

DatesOf(temporal_info, type) ==
    {f.parsed_date : f \in {f \in temporal_info :
                               f.content_type = type /\ f.parsed_date # NoDate}}

Earliest(dates) == CHOOSE d \in dates : \A e \in dates : d <= e

\* Linear decay with the age of the most recent dated mention: 1.0 on the
\* day of the mention, 0.0 from FreshnessHorizon days on.  A text without a
\* dated mention keeps the record's default of 1.0.
FreshnessAt(temporal_info, now) ==
    LET dated == DatesOf(temporal_info, "effective")
                    \cup DatesOf(temporal_info, "expiration")
        latest == CHOOSE d \in dated : \A e \in dated : e <= d
        age == now - latest
    IN  IF dated = {} \/ age <= 0 THEN FreshnessOne
        ELSE IF age >= FreshnessHorizon THEN 0
        ELSE FreshnessOne - age

\* get_temporal_summary at processing time now.
GetTemporalSummaryAt(temporal_info, now) ==
    LET effective == DatesOf(temporal_info, "effective")
        expiration == DatesOf(temporal_info, "expiration")
    IN  [is_current       |-> ~(\E d \in expiration : d < now),
         freshness_score  |-> FreshnessAt(temporal_info, now),
         effective_dates  |-> IF effective = {} THEN <<>> ELSE <<Earliest(effective)>>,
         expiration_dates |-> IF expiration = {} THEN <<>> ELSE <<Earliest(expiration)>>]

TemporalFieldsDefault(temporal_summary) ==
    [is_current      |-> TRUE,
     freshness_score |-> FreshnessOne,
     effective_date  |-> NoDate,
     expiration_date |-> NoDate]

\* The temporal fields process_document_enhanced gives every record of the
\* document.
TemporalFields(temporal_summary) ==
    [is_current      |-> temporal_summary.is_current,
     freshness_score |-> temporal_summary.freshness_score,
     effective_date  |-> IF temporal_summary.effective_dates # <<>>
                         THEN temporal_summary.effective_dates[1] ELSE NoDate,
     expiration_date |-> IF temporal_summary.expiration_dates # <<>>
                         THEN temporal_summary.expiration_dates[1] ELSE NoDate]

NotTracked == [held |-> FALSE, temporal_info |-> {}, ingested_at |-> 0,
               payload |-> TemporalFieldsDefault(<<>>)]

NoFreshSearch == [called |-> FALSE, min_freshness |-> 0, results |-> <<>>]

\* A day passes.
Tick ==
    /\ ~lastFresh.called
    /\ today < MaxDay
    /\ today' = today + 1
    /\ UNCHANGED <<tracked, lastFresh, exceptTemporal>>

\* process_document_enhanced and store_enhanced_chunks on the day today, for
\* a document with the facts temporal_info: the summary of that day goes
\* into the payload.
IngestDated ==
    /\ ~lastFresh.called
    /\ today <= MaxIngestDay
    /\ \E temporal_info \in TemporalInfos(today) :
          LET temporal_summary == GetTemporalSummaryAt(temporal_info, today)
          IN  tracked' = [held          |-> TRUE,
                          temporal_info |-> temporal_info,
                          ingested_at   |-> today,
                          payload       |-> TemporalFields(temporal_summary)]
    /\ UNCHANGED <<today, lastFresh, exceptTemporal>>

\* semantic_search_enhanced with filters {min_freshness: t}, t one of 0.0,
\* about 0.5 and 1.0: the store compares the payload field, and the result
\* carries the payload fields.
SearchFresh ==
    /\ ~lastFresh.called
    /\ \E min_freshness \in {0, 183, FreshnessOne} :
          LET search_filter ==
                  BuildSearchFilter([NoFilters EXCEPT !.has = {"min_freshness"},
                                                      !.min_freshness = min_freshness])
              hit == /\ tracked.held
                     /\ \A i \in DOMAIN search_filter.must :
                           CondHolds(tracked.payload, search_filter.must[i])
          IN  lastFresh' =
                [called        |-> TRUE,
                 min_freshness |-> min_freshness,
                 results       |-> IF hit
                                   THEN <<[is_current      |-> tracked.payload.is_current,
                                           freshness_score |-> tracked.payload.freshness_score]>>
                                   ELSE <<>>]
    /\ UNCHANGED <<today, tracked, exceptTemporal>>

FreshReturn ==
    /\ lastFresh.called
    /\ lastFresh' = NoFreshSearch
    /\ UNCHANGED <<today, tracked, exceptTemporal>>

-----------------------------------------------------------------------------
(* The embedding requests of the process and the throttlers                *)
(* (rag_config.py: ProductionRAGConfig.__init__, generate_embedding)       *)

\* Throttler(rate_limit=1000, period=60).
RateLimit == 1000

MaxPipelines == 2
MaxIssued == 1001

\* The throttler a ProductionRAGConfig creates for itself; acquired counts
\* the requests that went through it in the current period.
NewThrottler == [rate_limit |-> RateLimit, acquired |-> 0]

\* EnhancedRAGConfig(): a pipeline with a ProductionRAGConfig of its own.
NewPipeline ==
    /\ Len(pipelines) < MaxPipelines
    /\ pipelines' = Append(pipelines, NewThrottler)
    /\ UNCHANGED <<issued, exceptThrottle>>

\* generate_embedding on one of the instances: the request goes to the
\* embedding service; the function does not touch self.embedding_throttler.
EmbedCall ==
    /\ issued < MaxIssued
    /\ \E p \in DOMAIN pipelines :
          /\ issued' = issued + 1
          /\ pipelines' = pipelines
    /\ UNCHANGED exceptThrottle

\* A throttle period of 60 seconds is over.
PeriodEnds ==
    /\ issued' = 0
    /\ pipelines' = [p \in DOMAIN pipelines |-> NewThrottler]
    /\ UNCHANGED exceptThrottle

-----------------------------------------------------------------------------
(* vectorize_content_background (admin_secure.py): the admin job that      *)
(* processes every scraped document and stores the records                 *)

MaxBatch == 2

\* manual_scrape_content.json: up to MaxBatch documents, each with a text of
\* at least 50 characters; no document is listed twice.
Batches ==
    UNION {{b \in [1..n -> [doc : Docs, content : Contents]] :
               \A i \in 1..n, j \in 1..n : b[i].doc = b[j].doc => i = j}
           : n \in 0..MaxBatch}

\* enhanced_rag.EnhancedChunk, with enhanced_rag bound to the
\* EnhancedRAGConfig instance of the job: the class has no such attribute,
\* the lookup raises AttributeError.
EnhancedChunkResolves == FALSE

RECURSIVE AllEnhancedChunks(_, _, _)
\* The records of the documents from position i on whose processing did not
\* raise, in batch order.
AllEnhancedChunks(scraped_content, procFail, i) ==
    IF i > Len(scraped_content) THEN <<>>
    ELSE (IF i \in procFail THEN <<>>
          ELSE ProcessDocumentEnhanced(scraped_content[i].doc,
                                       scraped_content[i].content,
                                       scraped_content[i].doc))
         \o AllEnhancedChunks(scraped_content, procFail, i + 1)

\* load_and_index_csv_content("enhanced_content.json", "immigration_docs"):
\* one batch of points with the ids 0..n-1; a failing batch is skipped and
\* the function still returns True.
IndexCsvContent(index, n, batchFails) ==
    IF batchFails THEN index ELSE index \cup (0..(n - 1))

NoJob == [ran |-> FALSE, batch |-> <<>>, procFail |-> {}, chunks_created |-> 0,
          enhanced |-> FALSE, fallback |-> FALSE, activity |-> "none"]

VectorizeContentBackground ==
    /\ ~job.ran
    /\ \E scraped_content \in Batches :
       \E procFail \in SUBSET (1..Len(scraped_content)) :
          LET all_enhanced_chunks == AllEnhancedChunks(scraped_content, procFail, 1)
              n == Len(all_enhanced_chunks)
          IN  \E embFail \in SUBSET (1..n), firstBad \in 0..n,
                 partial \in BOOLEAN, batchFails \in BOOLEAN :
                LET result == StoreResult(store, all_enhanced_chunks, embFail,
                                          firstBad, partial)
                    stored == n > 0 /\ EnhancedChunkResolves
                    success == stored /\ result.ok
                    fallback == n > 0 /\ ~success
                IN  /\ partial => firstBad > 1
                    /\ ~stored => (embFail = {} /\ firstBad = 0)
                    /\ n = 0 => ~batchFails
                    /\ store' = IF stored THEN result.store ELSE store
                    /\ simpleIndex' = IF fallback
                                      THEN IndexCsvContent(simpleIndex, n, batchFails)
                                      ELSE simpleIndex
                    /\ job' = [ran            |-> TRUE,
                               batch          |-> scraped_content,
                               procFail       |-> procFail,
                               chunks_created |-> n,
                               enhanced       |-> success,
                               fallback       |-> fallback,
                               activity       |-> IF n = 0 THEN "VECTORIZE_ERROR"
                                                  ELSE "VECTORIZE_SUCCESS"]
    /\ UNCHANGED exceptBatch

\* The background task is over.
JobEnds ==
    /\ job.ran
    /\ job' = NoJob
    /\ UNCHANGED <<store, simpleIndex, exceptBatch>>

-----------------------------------------------------------------------------
(* smart_chunk_text (rag_config.py): size-bounded splitting.  A text is its *)
(* number of words; the words are numbered from 0, and a chunk holds the    *)
(* words start_word .. end_word - 1.                                        *)

\* self.chunk_size and self.chunk_overlap.
ChunkSize == 500
ChunkOverlap == 50

MaxWords == 620

RECURSIVE ChunkLoop(_, _, _, _)
\* The while loop: a window of chunk_size words is appended, start_idx moves
\* to end_idx - chunk_overlap, and the check that follows compares start_idx
\* with that same value.
ChunkLoop(len_words, start_idx, chunk_index, chunks) ==
    IF ~(start_idx < len_words) THEN chunks
    ELSE LET end_idx == IF start_idx + ChunkSize <= len_words
                        THEN start_idx + ChunkSize ELSE len_words
             appended == Append(chunks, [chunk_index |-> chunk_index,
                                         word_count  |-> end_idx - start_idx,
                                         start_word  |-> start_idx,
                                         end_word    |-> end_idx])
             next_idx == end_idx - ChunkOverlap
         IN  IF next_idx >= end_idx - ChunkOverlap THEN appended
             ELSE ChunkLoop(len_words, next_idx, chunk_index + 1, appended)

\* smart_chunk_text for a text of len_words words (0: the text is empty or
\* blank).
SmartChunkText(len_words) ==
    IF len_words = 0 THEN <<>>
    ELSE IF len_words <= ChunkSize
         THEN <<[chunk_index |-> 0, word_count |-> len_words,
                 start_word |-> 0, end_word |-> len_words]>>
         ELSE ChunkLoop(len_words, 0, 0, <<>>)

NoText == [called |-> FALSE, len_words |-> 0, chunks |-> <<>>]

\* The texts handed to the chunker.
Texts == {[NoText EXCEPT !.len_words = n] : n \in 0..MaxWords}

SmartChunkTextCall ==
    /\ ~chunked.called
    /\ chunked' = [chunked EXCEPT !.called = TRUE,
                                  !.chunks = SmartChunkText(chunked.len_words)]
    /\ UNCHANGED exceptChunker

-----------------------------------------------------------------------------
(* process_document_enhanced in full detail: the relationships and the      *)
(* temporal fields each record is given (enhanced_rag.py, Step 2 to Step 4) *)

MaxRels == 2

\* smart_chunk_document: the chunks of a document, with their entity lists;
\* no entity is twice in a list.
SmartChunkLists ==
    UNION {[1..n -> [form_numbers : {<<>>, <<"I-130">>, <<"I-130", "I-485">>},
                     visa_types   : {<<>>, <<"H-1B">>}]]
           : n \in 1..MaxChunks}

\* extract_relationships: the relationships of the full text, each once.
RelationshipLists ==
    LET found == {r \in Relationships :
                     /\ r.type \in {"requires", "leads_to"}
                     /\ Position(r.source) > Position(r.target)}
    IN  UNION {{l \in [1..n -> found] :
                   \A i \in 1..n, j \in 1..n : l[i] = l[j] => i = j}
               : n \in 0..MaxRels}

\* extract_temporal_info on the processing day 0: no fact, an effective
\* date of that day, an expiration date that has passed next to an
\* effective date a year back, and a date that could not be parsed.
DocTemporalInfos ==
    {{},
     {[content_type |-> "effective", parsed_date |-> 0]},
     {[content_type |-> "expiration", parsed_date |-> -1],
      [content_type |-> "effective", parsed_date |-> -FreshnessHorizon]},
     {[content_type |-> "effective", parsed_date |-> NoDate]}}

\* str.upper() on an entity value; the values of the vocabulary are written
\* in upper case.
Upper(entity) == entity

\* The dictionary made of one relationship.
RelationshipDict(rel) ==
    [source |-> rel.source, target |-> rel.target, type |-> rel.type]

RECURSIVE ChunkRelationships(_, _)
\* The loop over chunk_entities: for each entity of the chunk, in list
\* order, the dictionaries of the relationships that have it as source or
\* as target are appended.
ChunkRelationships(chunk_entities, relationships) ==
    IF chunk_entities = <<>> THEN <<>>
    ELSE LET entity == Head(chunk_entities)
             entity_rels ==
                 SelectSeq(relationships,
                           LAMBDA rel : \/ Upper(rel.source) = Upper(entity)
                                        \/ Upper(rel.target) = Upper(entity))
         IN  [k \in 1..Len(entity_rels) |-> RelationshipDict(entity_rels[k])]
                \o ChunkRelationships(Tail(chunk_entities), relationships)

\* The list of dictionaries made of the temporal facts of the document.
TemporalInfoDicts(temporal_info) ==
    {[type |-> info.content_type, date |-> info.parsed_date] : info \in temporal_info}

\* The calls of extract_temporal_info and get_temporal_summary in one
\* process_document_enhanced call on n chunks: they come before the loop.
TemporalExtractions(n) == 1

ChunkTemporalFieldsDefault(temporal_summary, i) ==
    IF i = 1 THEN TemporalFields(temporal_summary)
    ELSE TemporalFieldsDefault(temporal_summary)

\* The temporal fields of the i-th record: those of the document's summary.
ChunkTemporalFields(temporal_summary, i) == TemporalFields(temporal_summary)

\* Step 4: one record per chunk.
DecorateChunks(smart_chunks, relationships, temporal_info, temporal_summary) ==
    [i \in 1..Len(smart_chunks) |->
        LET chunk == smart_chunks[i]
            chunk_entities == chunk.form_numbers \o chunk.visa_types
            fields == ChunkTemporalFields(temporal_summary, i)
        IN  [chunk_index     |-> i - 1,
             form_numbers    |-> chunk.form_numbers,
             visa_types      |-> chunk.visa_types,
             relationships   |-> ChunkRelationships(chunk_entities, relationships),
             temporal_info   |-> TemporalInfoDicts(temporal_info),
             is_current      |-> fields.is_current,
             freshness_score |-> fields.freshness_score,
             effective_date  |-> fields.effective_date,
             expiration_date |-> fields.expiration_date]]

NotEnriched == [called |-> FALSE, smart_chunks |-> <<>>, relationships |-> <<>>,
                temporal_info |-> {}, extractions |-> 0, records |-> <<>>]

\* process_document_enhanced on a document whose text yields the chunks
\* smart_chunks, the relationships and the temporal facts.
ProcessDocumentDetailed ==
    /\ ~enriched.called
    /\ \E smart_chunks \in SmartChunkLists, relationships \in RelationshipLists,
          temporal_info \in DocTemporalInfos :
          LET temporal_summary == GetTemporalSummaryAt(temporal_info, today)
          IN  enriched' =
                [called        |-> TRUE,
                 smart_chunks  |-> smart_chunks,
                 relationships |-> relationships,
                 temporal_info |-> temporal_info,
                 extractions   |-> TemporalExtractions(Len(smart_chunks)),
                 records       |-> DecorateChunks(smart_chunks, relationships,
                                                  temporal_info, temporal_summary)]
    /\ UNCHANGED exceptEnrich

\* The caller takes the records.
EnrichReturn ==
    /\ enriched.called
    /\ enriched' = NotEnriched
    /\ UNCHANGED exceptEnrich

-----------------------------------------------------------------------------
(* get_entity_insights and validate_user_path (enhanced_rag.py)            *)

MaxStored == 2

\* Payloads of records as process_document_enhanced builds them from two
\* documents: two chunks of document 1 that share a relationship, and a
\* chunk of document 2 about a visa type.
InsightPayloads ==
    {[content |-> 0, source_url |-> 1,
      form_numbers |-> {"I-130"}, visa_types |-> {},
      requirements |-> {"passport"}, fees |-> {"$535"},
      relationships |-> <<[source |-> "I-485", target |-> "I-130", type |-> "requires"]>>,
      process_flows |-> << <<"I-130", "I-485">> >>,
      freshness_score |-> FreshnessOne],
     [content |-> 1, source_url |-> 1,
      form_numbers |-> {"I-485"}, visa_types |-> {},
      requirements |-> {"medical exam"}, fees |-> {"$535", "$1140"},
      relationships |-> <<[source |-> "I-485", target |-> "I-130", type |-> "requires"]>>,
      process_flows |-> <<>>,
      freshness_score |-> FreshnessOne],
     [content |-> 2, source_url |-> 2,
      form_numbers |-> {}, visa_types |-> {"H-1B"},
      requirements |-> {}, fees |-> {"$460"},
      relationships |-> <<>>,
      process_flows |-> <<>>,
      freshness_score |-> 183]}

\* The collections store_enhanced_chunks has written: the points have the
\* ids 0..n-1, each with the embedding of its content.
InsightStores ==
    UNION {{ {[id |-> i - 1,
               vector |-> GenerateEmbedding(l[i].content, FALSE),
               payload |-> l[i]] : i \in 1..n}
             : l \in [1..n -> InsightPayloads] }
           : n \in 0..MaxStored}

\* The dictionary semantic_search_enhanced builds for one hit, with the
\* metadata get_entity_insights reads.
InsightResult(hit, qvec) ==
    [content  |-> hit.payload.content,
     score    |-> Score(qvec, hit.vector),
     metadata |-> [source_url      |-> hit.payload.source_url,
                   form_numbers    |-> hit.payload.form_numbers,
                   visa_types      |-> hit.payload.visa_types,
                   requirements    |-> hit.payload.requirements,
                   fees            |-> hit.payload.fees,
                   relationships   |-> hit.payload.relationships,
                   process_flows   |-> hit.payload.process_flows,
                   freshness_score |-> hit.payload.freshness_score]]

InsightLimit == 10

\* semantic_search_enhanced(query, limit, filters) on the collection st: the
\* result lists it may return.  filters.has = {}: no filter dictionary.
SearchAnswers(st, query, limit, filters, fault) ==
    LET query_embedding == GenerateEmbedding(query, fault = "embedding")
        search_filter == IF filters.has # {} THEN BuildSearchFilter(filters)
                         ELSE NoneFilter
        answers == IF query_embedding.raised \/ fault = "store" THEN {<<>>}
                   ELSE RankedLists(st, query_embedding, search_filter,
                                    ScoreThreshold, limit)
    IN  {[i \in 1..Len(search_result) |->
             InsightResult(search_result[i], query_embedding)]
         : search_result \in answers}

\* entity.startswith(('I-', 'N-', 'DS-')), on the entities of the vocabulary.
StartsWithFormPrefix(entity) ==
    LET prefix == IF entity \in {"I-130", "I-485"} THEN "I-" ELSE "H-"
    IN  prefix \in {"I-", "N-", "DS-"}

\* entity_filter: a dictionary with both keys, one of them with the empty
\* list; any(entity_filter.values()) holds as the other list has the entity,
\* so the dictionary is what the search is called with.
EntityFilter(entity) ==
    LET entity_filter ==
            [NoFilters EXCEPT
                !.has = {"form_numbers", "visa_types"},
                !.form_numbers = IF StartsWithFormPrefix(entity) THEN {entity} ELSE {},
                !.visa_types = IF ~StartsWithFormPrefix(entity) THEN {entity} ELSE {}]
    IN  IF entity_filter.form_numbers # {} \/ entity_filter.visa_types # {}
        THEN entity_filter
        ELSE NoFilters

\* The text "information about <entity>" as the embedding model sees it.
InsightQuery(entity) == Position(entity)

RECURSIVE ExtendAll(_, _, _)
\* list.extend over the hits from position i on, for one metadata field.
ExtendAll(results, field, i) ==
    IF i > Len(results) THEN <<>>
    ELSE results[i].metadata[field] \o ExtendAll(results, field, i + 1)

RECURSIVE SumFreshness(_, _)
SumFreshness(results, i) ==
    IF i > Len(results) THEN 0
    ELSE results[i].metadata.freshness_score + SumFreshness(results, i + 1)

RECURSIVE RunDependencies(_, _)
\* get_entity_dependencies run to its end.
RunDependencies(w, g) ==
    IF w.todo = <<>> THEN w.out ELSE RunDependencies(Visit(w, g), g)

RECURSIVE RunProcessFlow(_, _)
\* get_process_flow run to its end.
RunProcessFlow(w, g) ==
    IF w.todo = <<>> THEN w.out ELSE RunProcessFlow(Extend(w, g), g)

ProcessFlow(g, entity, max_depth) ==
    RunProcessFlow([NoWalk EXCEPT !.entity = entity, !.max_depth = max_depth,
                                  !.todo = << <<entity>> >>], g)

\* The aggregation of get_entity_insights over the hits: sets are updated,
\* lists are extended.  average_freshness is total_freshness over the number
\* of hits, kept as the two numbers.
AggregateInsights(entity, results, g) ==
    [entity          |-> entity,
     total_mentions  |-> Len(results),
     related_forms   |-> UNION {results[i].metadata.form_numbers : i \in DOMAIN results},
     related_visas   |-> UNION {results[i].metadata.visa_types : i \in DOMAIN results},
     requirements    |-> UNION {results[i].metadata.requirements : i \in DOMAIN results},
     fees            |-> UNION {results[i].metadata.fees : i \in DOMAIN results},
     sources         |-> {results[i].metadata.source_url : i \in DOMAIN results},
     relationships   |-> ExtendAll(results, "relationships", 1),
     process_flows   |-> ExtendAll(results, "process_flows", 1),
     total_freshness |-> SumFreshness(results, 1),
     dependencies    |->
         RunDependencies([NoWalk EXCEPT !.entity = entity, !.todo = <<entity>>], g),
     complete_process_flows |-> ProcessFlow(g, entity, 3)]

NoInsight == [called |-> FALSE, entity |-> "", fault |-> "none",
              filters |-> NoFilters, results |-> <<>>,
              insights |-> AggregateInsights("", <<>>, {})]

\* get_entity_insights(entity).
GetEntityInsights ==
    /\ ~insight.called
    /\ insight.results = <<>>
    /\ \E entity \in Entities, fault \in {"none", "embedding", "store"} :
          LET entity_filter == EntityFilter(entity)
          IN  \E results \in SearchAnswers(store, InsightQuery(entity), InsightLimit,
                                           entity_filter, fault) :
                insight' = [called   |-> TRUE,
                            entity   |-> entity,
                            fault    |-> fault,
                            filters  |-> entity_filter,
                            results  |-> results,
                            insights |-> AggregateInsights(entity, results, graph)]
    /\ UNCHANGED <<userPath, exceptInsight>>

\* The aggregation of get_entity_insights applied to a list of hits that is
\* at hand.
AggregateHits ==
    /\ ~insight.called
    /\ \E entity \in Entities :
          insight' = [insight EXCEPT
                         !.called = TRUE,
                         !.entity = entity,
                         !.insights = AggregateInsights(entity, insight.results, graph)]
    /\ UNCHANGED <<userPath, exceptInsight>>

InsightReturn ==
    /\ insight.called
    /\ insight' = NoInsight
    /\ UNCHANGED <<userPath, exceptInsight>>

\* The timeline entry of one entity; get_processing_estimate gives a pair
\* of days for the entities it knows.
TimelineEstimate(entity) ==
    LET processing_estimate == IF entity = "I-130" THEN <<180, 365>>
                               ELSE IF entity = "I-485" THEN <<240, 720>>
                               ELSE <<>>
    IN  IF processing_estimate # <<>>
        THEN [has |-> TRUE,
              min_days |-> processing_estimate[1],
              max_days |-> processing_estimate[2],
              description |-> <<processing_estimate[1] \div 30,
                                processing_estimate[2] \div 30>>]
        ELSE [has |-> FALSE, min_days |-> 0, max_days |-> 0, description |-> <<0, 0>>]

Remediation == [kind |-> "address_conflicts", next |-> "", after |-> ""]

StepsAfterUnfiltered(g, entity, entities) ==
    LET flows == ProcessFlow(g, entity, 2)
        kept == SelectSeq(flows, LAMBDA flow : Len(flow) > 1)
    IN  [k \in 1..Len(kept) |->
            [kind |-> "consider", next |-> kept[k][2], after |-> entity]]

\* "Consider <flow[1]> as next step after <entity>", for the flows of one
\* entity whose second node is not in the input.
StepsAfter(g, entity, entities) ==
    LET flows == ProcessFlow(g, entity, 2)
        kept == SelectSeq(flows, LAMBDA flow : Len(flow) > 1 /\ flow[2] \notin entities)
    IN  [k \in 1..Len(kept) |->
            [kind |-> "consider", next |-> kept[k][2], after |-> entity]]

RECURSIVE NextSteps(_, _, _, _)
\* The loop over the input entities, from position i on.
NextSteps(g, entity_list, entities, i) ==
    IF i > Len(entity_list) THEN <<>>
    ELSE StepsAfter(g, entity_list[i], entities)
            \o NextSteps(g, entity_list, entities, i + 1)

NoPath == [called |-> FALSE, entities |-> {}, valid |-> TRUE, conflicts |-> {},
           missing_prerequisites |-> {}, entity_insights |-> <<>>,
           recommended_next_steps |-> <<>>, timeline_estimate |-> <<>>]

\* validate_user_path(entities, user_country); the input is a list without
\* repeats, here in vocabulary order.
ValidateUserPath ==
    /\ ~userPath.called
    /\ \E entities \in SUBSET Entities :
          LET entity_list == SelectSeq(EntityVocabulary, LAMBDA e : e \in entities)
              validation == Validate(graph, entities)
              answers == [e \in entities |->
                            UNION {SearchAnswers(store, InsightQuery(e), InsightLimit,
                                                 EntityFilter(e), fault)
                                   : fault \in {"none", "embedding", "store"}}]
          IN  \E results \in [entities -> UNION {answers[e] : e \in entities}] :
                /\ \A e \in entities : results[e] \in answers[e]
                /\ userPath' =
                     [called  |-> TRUE,
                      entities |-> entities,
                      valid   |-> validation.valid,
                      conflicts |-> validation.conflicts,
                      missing_prerequisites |-> validation.missing_prerequisites,
                      entity_insights |->
                          [e \in entities |-> AggregateInsights(e, results[e], graph)],
                      recommended_next_steps |->
                          IF ~validation.valid THEN <<Remediation>>
                          ELSE NextSteps(graph, entity_list, entities, 1),
                      timeline_estimate |->
                          [e \in {e \in entities : TimelineEstimate(e).has}
                              |-> TimelineEstimate(e)]]
    /\ UNCHANGED <<insight, exceptInsight>>

PathReturn ==
    /\ userPath.called
    /\ userPath' = NoPath
    /\ UNCHANGED <<insight, exceptInsight>>

-----------------------------------------------------------------------------
(* TranslationService (translation_service.py): the SQLite translation     *)
(* cache and translate_text.  Times are day numbers.                        *)

MaxCacheDay == 30

\* CacheLifetime: the age, in days, below which a cached row is served.
CacheLifetime == 30

\* language_mappings: every code maps to itself but "zh" and "no".
language_mappings ==
    [lang \in {"zh", "ar", "hi", "es", "fr", "pt", "ru", "de", "ja", "ko", "it",
               "tr", "vi", "th", "pl", "nl", "sv", "id", "hu", "no", "bg", "ro",
               "el", "fi", "hr", "da", "ta", "fil", "cs", "sk", "uk", "ms"} |->
        IF lang = "zh" THEN "zh-CN" ELSE IF lang = "no" THEN "nb" ELSE lang]

\* The order translate_text tries the providers in.
ProviderOrder == <<"azure", "deepl", "google">>

\* What one provider call gives: a translated text, or "None" (no API key,
\* a status other than 200, an exception).
ProviderAnswers == {"None", "traduccion-1", "traduccion-2"}

\* get_cached_translation: the translated_text of the row with this key
\* that was created less than CacheLifetime days ago, or "None".
get_cached_translation(cache, text, source_lang, target_lang, now) ==
    LET rows == {row \in cache :
                    /\ row.source_text = text
                    /\ row.source_lang = source_lang
                    /\ row.target_lang = target_lang
                    /\ row.created_at > now - CacheLifetime}
    IN  IF rows = {} THEN "None" ELSE (CHOOSE row \in rows : TRUE).translated_text

\* cache_translation: INSERT OR REPLACE under UNIQUE(source_text,
\* source_lang, target_lang).
cache_translation(cache, text, source_lang, target_lang, translated_text, provider, now) ==
    {row \in cache : ~ /\ row.source_text = text
                       /\ row.source_lang = source_lang
                       /\ row.target_lang = target_lang}
    \cup {[source_text |-> text, source_lang |-> source_lang,
           target_lang |-> target_lang, translated_text |-> translated_text,
           provider |-> provider, created_at |-> now]}

\* The provider loop of translate_text from provider i on: the first
\* answer that is a text, the provider that gave it, and the calls made.
RECURSIVE TryProviders(_, _)
TryProviders(answers, i) ==
    IF i > Len(ProviderOrder)
    THEN [result |-> "None", provider |-> "None", calls |-> i - 1]
    ELSE IF answers[ProviderOrder[i]] # "None"
         THEN [result |-> answers[ProviderOrder[i]],
               provider |-> ProviderOrder[i], calls |-> i]
         ELSE TryProviders(answers, i + 1)

\* The key translate_text writes the translation under: the target code
\* after "Normalize language codes".
StoredTarget(target_lang) ==
    IF target_lang \in DOMAIN language_mappings
    THEN language_mappings[target_lang]
    ELSE target_lang

\* An empty cache on day 0, and no call made yet.
NoTranslations ==
    [now |-> 0, cache |-> {},
     last |-> [called |-> FALSE, text |-> "", target_lang |-> "",
               source_lang |-> "", result |-> "", calls |-> 0, at |-> 0]]

\* translate_text(text, target_lang, source_lang), whole: the same-language
\* shortcut, the cache lookup, the provider loop with the cache write, and
\* the original text when every provider fails.  The text is one petition
\* text, the source language the default "en".
TranslateText ==
    /\ \E text \in {"petition"}, target_lang \in {"zh", "es", "en"},
          answers \in [{"azure", "deepl", "google"} -> ProviderAnswers] :
        LET source_lang == "en"
            cached == get_cached_translation(translation.cache, text,
                          source_lang, target_lang, translation.now)
            tried == TryProviders(answers, 1)
            call == [called |-> TRUE, text |-> text,
                     target_lang |-> target_lang, source_lang |-> source_lang,
                     result |-> text, calls |-> 0, at |-> translation.now]
        IN  translation' =
              IF target_lang = source_lang
              THEN [translation EXCEPT !.last = call]
              ELSE IF cached # "None"
              THEN [translation EXCEPT !.last = [call EXCEPT !.result = cached]]
              ELSE IF tried.result # "None"
              THEN [translation EXCEPT
                      !.cache = cache_translation(translation.cache, text,
                                    source_lang, StoredTarget(target_lang),
                                    tried.result, tried.provider,
                                    translation.now),
                      !.last = [call EXCEPT !.result = tried.result,
                                            !.calls = tried.calls]]
              ELSE [translation EXCEPT !.last = [call EXCEPT !.calls = tried.calls]]
    /\ UNCHANGED exceptTranslation

\* Days pass between two calls.
CacheClockTick ==
    /\ \E days \in {CacheLifetime - 1, CacheLifetime} :
        /\ translation.now + days <= MaxCacheDay
        /\ translation' = [translation EXCEPT !.now = @ + days]
    /\ UNCHANGED exceptTranslation

-----------------------------------------------------------------------------
(* vectorize_batch_safe (admin_secure.py): batch vectorization into the    *)
(* collection immigration_docs, with deduplication on content_hash.  A     *)
(* document content is a sequence of sentences, each longer than half the  *)
(* chunk size of 500, so that every sentence ends up a chunk of its own; an *)
(* empty sequence is a document whose content is blank.                     *)

MaxSafeDocs == 2
MaxSentences == 2
NumSentences == 2
\* Runs start while fewer than MaxPoints point ids have been drawn.
MaxPoints == 2

\* hashlib.md5(chunk_text.encode()).hexdigest(): one digest per text.
ContentHash(chunk_text) == <<"md5", chunk_text>>

\* The local current_chunk before its first assignment.
Unbound == 0

\* The chunk loop over the sentences of one document (lines 4817-4865):
\* every sentence but the last is emitted inside the loop, the last after
\* it, each only when its hash is not in existing_hashes.  A blank document
\* skips the loop, and "Add remaining content" then reads the current_chunk
\* that the document before it left, or raises when nothing has assigned it.
DocChunks(content, current_chunk, existing_hashes) ==
    LET texts == IF Len(content) > 0 THEN content
                 ELSE IF current_chunk = Unbound THEN <<>>
                 ELSE <<current_chunk>>
    IN  [chunks |-> SelectSeq(texts,
                       LAMBDA text : ContentHash(text) \notin existing_hashes),
         current_chunk |-> IF Len(content) > 0 THEN content[Len(content)]
                           ELSE current_chunk,
         raised |-> Len(content) = 0 /\ current_chunk = Unbound]

\* The documents of one batch, from document i on (lines 4811-4865).
RECURSIVE BatchChunks(_, _, _, _, _)
BatchChunks(batch_docs, i, current_chunk, existing_hashes, chunks) ==
    IF i > Len(batch_docs)
    THEN [chunks |-> chunks, current_chunk |-> current_chunk, raised |-> FALSE]
    ELSE LET doc == DocChunks(batch_docs[i], current_chunk, existing_hashes)
         IN  IF doc.raised
             THEN [chunks |-> <<>>, current_chunk |-> current_chunk,
                   raised |-> TRUE]
             ELSE BatchChunks(batch_docs, i + 1, doc.current_chunk,
                              existing_hashes, chunks \o doc.chunks)

\* The loop over the batches from document batch_idx on (lines 4803-4918).
\* run holds existing_hashes, current_chunk, the points upserted so far and
\* the next fresh point id; upsert_fails is the set of batches whose upsert
\* raises.  The hashes of a batch join existing_hashes when its points are
\* prepared, after all the chunks of the batch have been created.
RECURSIVE BatchLoop(_, _, _, _, _)
BatchLoop(successful_docs, batch_size, batch_idx, upsert_fails, run) ==
    IF batch_idx > Len(successful_docs) THEN run
    ELSE LET last_idx == IF batch_idx + batch_size - 1 <= Len(successful_docs)
                         THEN batch_idx + batch_size - 1
                         ELSE Len(successful_docs)
             batch_docs == SubSeq(successful_docs, batch_idx, last_idx)
             made == BatchChunks(batch_docs, 1, run.current_chunk,
                                 run.existing_hashes, <<>>)
             points == {[id |-> run.next_id + k,
                         content_hash |-> ContentHash(made.chunks[k])] :
                        k \in 1..Len(made.chunks)}
             after ==
                 IF made.raised THEN run
                 ELSE [run EXCEPT
                         !.current_chunk = made.current_chunk,
                         !.existing_hashes =
                             @ \cup {p.content_hash : p \in points},
                         !.next_id = @ + Len(made.chunks),
                         !.upserted = IF batch_idx \in upsert_fails THEN @
                                      ELSE @ \cup points]
         IN  BatchLoop(successful_docs, batch_size, batch_idx + batch_size,
                       upsert_fails, after)

\* The collection and the id source before any run; of the last run, the
\* content hashes the collection held when it started, whether its scroll
\* succeeded, and the points it upserted.
NoSafeRun == [ran |-> FALSE, points |-> {}, next_id |-> 0, before |-> {},
              scroll_ok |-> TRUE, inserted |-> {}]

\* vectorize_batch_safe(batch_size), whole, on the successful documents of
\* the scraped-content file.  When the scroll raises, the run proceeds
\* without the existing hashes.
VectorizeBatchSafe ==
    /\ safeBatch.next_id < MaxPoints
    /\ \E n \in 1..MaxSafeDocs, batch_size \in 1..MaxSafeDocs,
          scroll_ok \in BOOLEAN :
       \E successful_docs \in
              [1..n -> UNION {[1..m -> 1..NumSentences] : m \in 0..MaxSentences}],
          upsert_fails \in SUBSET (1..n) :
        LET before == {p.content_hash : p \in safeBatch.points}
            run == BatchLoop(successful_docs, batch_size, 1, upsert_fails,
                       [existing_hashes |-> IF scroll_ok THEN before ELSE {},
                        current_chunk |-> Unbound,
                        next_id |-> safeBatch.next_id,
                        upserted |-> {}])
        IN  safeBatch' = [ran |-> TRUE,
                          points |-> safeBatch.points \cup run.upserted,
                          next_id |-> run.next_id,
                          before |-> before,
                          scroll_ok |-> scroll_ok,
                          inserted |-> run.upserted]
    /\ UNCHANGED exceptSafeBatch

-----------------------------------------------------------------------------
(* track_avatar_session (admin_secure.py): avatar minutes and overage      *)
(* billing.  Minutes are whole minutes, money is in cents.  The user_usage  *)
(* table has one row per user and day; a row that does not exist yet counts *)
(* as a row of zeros, which is what get_user_usage inserts.                 *)

MaxUsageDays == 2
MaxSessionUnits == 4
MaxMonthMinutes == 60

\* The registered users, and users.tier.
UserTier == [starter_user |-> "starter", free_user |-> "free"]

\* get_tier_limits: the avatar minutes of a month, and the overage rate in
\* cents a minute.  The free tier has no overage_rate.
get_tier_limits(tier) ==
    IF tier = "starter"
    THEN [limits |-> [ai_chat |-> -1, avatar_minutes |-> 30], overage_rate |-> 20]
    ELSE IF tier = "pro"
    THEN [limits |-> [ai_chat |-> -1, avatar_minutes |-> 120], overage_rate |-> 20]
    ELSE IF tier = "elite"
    THEN [limits |-> [ai_chat |-> -1, avatar_minutes |-> 300], overage_rate |-> 20]
    ELSE [limits |-> [ai_chat |-> 5, avatar_minutes |-> 0]]

\* get_user_usage: the sum of a column over the rows of the month.
RECURSIVE MonthlyTotal(_, _, _)
MonthlyTotal(rows, column, day) ==
    IF day = 0 THEN 0
    ELSE rows[day][column] + MonthlyTotal(rows, column, day - 1)

\* The overage charge of a session (lines 1692-1698).
OverageCharge(monthly_limit, overage_rate, current_usage, minutes) ==
    IF monthly_limit > 0 /\ current_usage + minutes > monthly_limit
    THEN (current_usage + minutes - monthly_limit) * overage_rate
    ELSE 0

NoAvatarUsage ==
    [day |-> 1,
     usage |-> [user_id \in DOMAIN UserTier |->
                  [day \in 1..MaxUsageDays |->
                     [avatar_minutes_used |-> 0, overage_charges |-> 0]]],
     last |-> [user_id |-> "", success |-> FALSE, overage_charge |-> 0]]

\* track_avatar_session(user_id, session_duration_minutes), whole: the
\* limits of the tier, the usage of the month, the charge, and the two
\* increment_user_usage calls on today's row.  Reading overage_rate raises
\* for the free tier, and the call then records nothing.
TrackAvatarSession ==
    /\ \E user_id \in DOMAIN UserTier, units \in 1..MaxSessionUnits :
        LET session_duration_minutes == 5 * units
            tier_limits == get_tier_limits(UserTier[user_id])
            rows == avatar.usage[user_id]
            current_usage ==
                MonthlyTotal(rows, "avatar_minutes_used", MaxUsageDays)
            overage_charge ==
                OverageCharge(tier_limits.limits.avatar_minutes,
                              tier_limits.overage_rate, current_usage,
                              session_duration_minutes)
        IN  /\ current_usage + session_duration_minutes <= MaxMonthMinutes
            /\ avatar' =
                 IF "overage_rate" \notin DOMAIN tier_limits
                 THEN [avatar EXCEPT !.last = [user_id |-> user_id,
                                               success |-> FALSE,
                                               overage_charge |-> 0]]
                 ELSE [avatar EXCEPT
                         !.usage[user_id][avatar.day].avatar_minutes_used =
                             @ + session_duration_minutes,
                         !.usage[user_id][avatar.day].overage_charges =
                             @ + overage_charge,
                         !.last = [user_id |-> user_id, success |-> TRUE,
                                   overage_charge |-> overage_charge]]
    /\ UNCHANGED exceptAvatar

\* The next day of the same month begins.
NextUsageDay ==
    /\ avatar.day < MaxUsageDays
    /\ avatar' = [avatar EXCEPT !.day = @ + 1]
    /\ UNCHANGED exceptAvatar

-----------------------------------------------------------------------------
(* The daily question quota (admin_secure.py): check_user_access and        *)
(* increment_user_usage as use_feature and ask_worldwide_question call      *)
(* them.  The handlers are coroutines of the one event loop that            *)
(* uvicorn.run starts; a request gives way to the others only where it       *)
(* awaits, and neither handler awaits between its check and its increment.  *)
(* The requests are those of one free-tier user.                            *)

NumRequests == 2
MaxQuotaDays == 2

\* check_user_access(user_id, "ai_chat") on the count observed: allowed
\* unless the tier has a daily limit and the count has reached it.
AllowedUpTo(daily_limit, daily_questions_used) ==
    ~(daily_limit > 0 /\ daily_questions_used > daily_limit)

Allowed(daily_limit, daily_questions_used) ==
    ~(daily_limit > 0 /\ daily_questions_used >= daily_limit)

\* The user_usage rows of the user (one a day, zero until counted), no
\* request in flight, and no verdict given yet.
NoRequests ==
    [day |-> 1,
     daily_questions_used |-> [day \in 1..MaxQuotaDays |-> 0],
     requests |-> [r \in 1..NumRequests |-> [pc |-> "idle", handler |-> ""]],
     last |-> [called |-> FALSE, allowed |-> FALSE, observed |-> 0]]

\* The check and the increment of a handler, run without giving way:
\* the count of today's row, the verdict, and the row after the increment.
Gate(r, next_pc) ==
    LET daily_limit == get_tier_limits(UserTier["free_user"]).limits.ai_chat
        observed == quota.daily_questions_used[quota.day]
        allowed == Allowed(daily_limit, observed)
    IN  quota' = [quota EXCEPT
            !.daily_questions_used[quota.day] = IF allowed THEN @ + 1 ELSE @,
            !.requests[r].pc = IF allowed THEN next_pc ELSE "idle",
            !.last = [called |-> TRUE, allowed |-> allowed,
                      observed |-> observed]]

\* A request of the user reaches one of the two handlers.
RequestArrives ==
    /\ \E r \in 1..NumRequests,
          handler \in {"use_feature", "ask_worldwide_question"} :
        /\ quota.requests[r].pc = "idle"
        /\ quota' = [quota EXCEPT !.requests[r] =
                        [pc |-> "received", handler |-> handler]]
    /\ UNCHANGED exceptQuota

\* use_feature("ai_chat"), whole: check, increment, check again, return.
UseFeature ==
    /\ \E r \in 1..NumRequests :
        /\ quota.requests[r].pc = "received"
        /\ quota.requests[r].handler = "use_feature"
        /\ Gate(r, "idle")
    /\ UNCHANGED exceptQuota

\* ask_worldwide_question up to its first await after the feature gating:
\* a request that is refused returns 403, one that is admitted is counted
\* and goes on to build its answer.
AskWorldwideQuestion ==
    /\ \E r \in 1..NumRequests :
        /\ quota.requests[r].pc = "received"
        /\ quota.requests[r].handler = "ask_worldwide_question"
        /\ Gate(r, "answering")
    /\ UNCHANGED exceptQuota

\* ask_worldwide_question returns its answer.
AskWorldwideAnswers ==
    /\ \E r \in 1..NumRequests :
        /\ quota.requests[r].pc = "answering"
        /\ quota' = [quota EXCEPT !.requests[r].pc = "idle"]
    /\ UNCHANGED exceptQuota

\* The next day begins: CURRENT_DATE selects a new user_usage row.
NextQuotaDay ==
    /\ quota.day < MaxQuotaDays
    /\ quota' = [quota EXCEPT !.day = @ + 1]
    /\ UNCHANGED exceptQuota

-----------------------------------------------------------------------------
(* Specifications *)

\* The state after construction, for every part that is not in busy: no
\* call has returned anything, the collections and the relationship graph
\* are empty, the clock is at day 0, and the module-level rag_config
\* instance with its throttler exists from import on.
Quiet(busy) ==
    /\ IF "rag" \in busy THEN TRUE
       ELSE /\ processed = NotHeld
            /\ store = {}
            /\ lastStore = NoStoreCall
            /\ lastSearch = NoSearchCall
    /\ IF "mapper" \in busy THEN TRUE
       ELSE graph = {} /\ walk = NoWalk
    /\ IF "insight" \in busy THEN TRUE
       ELSE insight = NoInsight /\ userPath = NoPath
    /\ IF "chunker" \in busy THEN TRUE
       ELSE chunked = NoText
    /\ today = 0 /\ tracked = NotTracked /\ lastFresh = NoFreshSearch
    /\ pipelines = <<NewThrottler>> /\ issued = 0
    /\ simpleIndex = {} /\ job = NoJob
    /\ enriched = NotEnriched
    /\ translation = NoTranslations
    /\ safeBatch = NoSafeRun
    /\ avatar = NoAvatarUsage
    /\ quota = NoRequests

Init == Quiet({})

Next ==
    \/ Process
    \/ StoreEnhancedChunks
    \/ CleanupEnhancedCollection
    \/ SemanticSearchEnhanced
    \/ Return

Spec == Init /\ [][Next]_vars

\* The relationship queries on a graph that earlier extraction has built.
MapperInit ==
    /\ Quiet({"mapper"})
    /\ graph \in Graphs
    /\ walk = NoWalk

MapperSpec ==
    MapperInit /\ [][\/ GetEntityDependencies
                     \/ DependenciesStep
                     \/ GetProcessFlow
                     \/ ProcessFlowStep
                     \/ ValidateEntityCombination
                     \/ MapperReturn]_vars

\* A query that has been called keeps running: its loop is sequential code
\* of one call.
MapperFairSpec ==
    MapperSpec /\ WF_vars(DependenciesStep) /\ WF_vars(ProcessFlowStep)

\* Ingestion and freshness-filtered retrieval while days pass.
TemporalSpec ==
    Init /\ [][Tick \/ IngestDated \/ SearchFresh \/ FreshReturn]_vars

\* The embedding requests of all pipelines of the process.
ThrottleSpec == Init /\ [][NewPipeline \/ EmbedCall \/ PeriodEnds]_vars

\* Runs of the admin vectorization job.
BatchSpec == Init /\ [][VectorizeContentBackground \/ JobEnds]_vars

\* smart_chunk_text applied to texts of every length up to MaxWords.
ChunkerInit ==
    /\ Quiet({"chunker"})
    /\ chunked \in Texts

ChunkerSpec == ChunkerInit /\ [][SmartChunkTextCall]_vars

\* process_document_enhanced on documents of every shape within the bounds.
EnrichSpec == Init /\ [][ProcessDocumentDetailed \/ EnrichReturn]_vars

\* get_entity_insights on collections that ingestion has filled.
InsightInit ==
    /\ Quiet({"rag"})
    /\ processed = NotHeld
    /\ lastStore = NoStoreCall
    /\ lastSearch = NoSearchCall
    /\ store \in InsightStores

InsightSpec == InsightInit /\ [][GetEntityInsights \/ InsightReturn]_vars

\* The aggregation over every list of hits a search without a filter
\* returns from such a collection.
AggregateInit ==
    /\ Quiet({"rag", "insight"})
    /\ processed = NotHeld
    /\ lastStore = NoStoreCall
    /\ lastSearch = NoSearchCall
    /\ store \in InsightStores
    /\ userPath = NoPath
    /\ \E query \in Queries :
          insight \in {[NoInsight EXCEPT !.results = results] :
                          results \in SearchAnswers(store, query, InsightLimit,
                                                    NoFilters, "none")}

AggregateSpec == AggregateInit /\ [][AggregateHits]_vars

\* validate_user_path on a graph that earlier extraction has built.
PathSpec == MapperInit /\ [][ValidateUserPath \/ PathReturn]_vars

\* The translation service with its cache, while days pass.
TranslationSpec == Init /\ [][TranslateText \/ CacheClockTick]_vars

\* Runs of the safe batch vectorization, one after the other.
SafeBatchSpec == Init /\ [][VectorizeBatchSafe]_vars

\* Avatar sessions of the users over the days of one month.
AvatarSpec == Init /\ [][TrackAvatarSession \/ NextUsageDay]_vars

\* Requests of the users interleaving on the event loop.
QuotaSpec ==
    Init /\ [][\/ RequestArrives
               \/ UseFeature
               \/ AskWorldwideQuestion
               \/ AskWorldwideAnswers
               \/ NextQuotaDay]_vars

-----------------------------------------------------------------------------
(* Properties *)

\* C1: re-processing an unchanged document and storing it again replaces its
\* records one for one: the chunk_index values held for the document are the
\* same after the second pass as after the first, and no record is doubled.
C1_ReprocessUnchanged ==
    (lastStore.called /\ lastStore.ok /\ lastStore.priorPass) =>
        /\ IdxOf(store, lastStore.doc) = lastStore.idxBefore
        /\ Cardinality(PointsOf(store, lastStore.doc))
              = Cardinality(IdxOf(store, lastStore.doc))
        /\ Range(lastStore.chunks) \subseteq PayloadsOf(store, lastStore.doc)

C1_Witness ==
    /\ lastStore.called /\ lastStore.ok /\ lastStore.priorPass
    /\ Len(lastStore.chunks) >= 2

\* C2: storing the records of one document never overwrites or removes a
\* record of another document.
C2_OtherDocumentsKept ==
    [][(~lastStore.called /\ lastStore'.called) =>
          \A p \in store : p.payload.source_url # lastStore'.doc => p \in store']_vars

\* C3: after a document is re-ingested with a text that yields fewer chunks
\* than before, the store holds exactly the records of the new pass for that
\* document and none of the earlier pass.
C3_ReplaceOnReingest ==
    (/\ lastStore.called /\ lastStore.ok
     /\ Cardinality(lastStore.idxBefore) > Len(lastStore.chunks)) =>
        PayloadsOf(store, lastStore.doc) = Range(lastStore.chunks)

\* C4: a search with filters = {is_current: true} returns no record whose
\* is_current is false.
C4_IsCurrentFilter ==
    (lastSearch.called /\ "is_current" \in lastSearch.filters.has) =>
        \A i \in DOMAIN lastSearch.results : lastSearch.results[i].metadata.is_current

\* C5: when the embedding call throws for one chunk of a document, the
\* pipeline still produces a record for every chunk, and every chunk whose
\* embedding call succeeded is indexed with its own embedding.
C5_EmbeddingFailureDoesNotAbort ==
    /\ processed.held => Len(processed.chunks) = processed.content.n
    /\ (lastStore.called /\ lastStore.firstBad = 0) =>
          \A i \in DOMAIN lastStore.chunks : i \notin lastStore.embFail =>
              \E p \in store : /\ p.payload = lastStore.chunks[i]
                               /\ ~p.vector.zero
                               /\ p.vector.of = lastStore.chunks[i].content

C5_Witness ==
    /\ lastStore.called /\ lastStore.firstBad = 0
    /\ Cardinality(lastStore.embFail) = 1
    /\ Len(lastStore.chunks) >= 2
    /\ \E p \in store : p.payload \in Range(lastStore.chunks) /\ ~p.vector.zero

\* C6: no record is in the store with a vector that did not come from a
\* successful embedding call.
C6_NoPlaceholderVector ==
    \A p \in store : ~p.vector.zero

\* C7: when persisting one record of a batch fails, every other record of
\* the batch is still persisted.
C7_PerRecordStoreFailure ==
    (lastStore.called /\ lastStore.firstBad # 0) =>
        \A i \in DOMAIN lastStore.chunks : i # lastStore.firstBad =>
            \E p \in store : p.payload = lastStore.chunks[i]

\* C8: search results are ordered by descending score, and results of equal
\* score by higher freshness_score first.
C8_RankedWithFreshnessTieBreak ==
    lastSearch.called =>
        \A i, j \in DOMAIN lastSearch.results : i < j =>
            \/ lastSearch.results[i].score > lastSearch.results[j].score
            \/ /\ lastSearch.results[i].score = lastSearch.results[j].score
               /\ lastSearch.results[i].metadata.freshness_score
                     >= lastSearch.results[j].metadata.freshness_score

\* C9: a search with a negative limit or an unknown filter key is rejected
\* with an error instead of being answered with a result list.
C9_ContractViolationRejected ==
    (/\ lastSearch.called
     /\ \/ lastSearch.limit < 0
        \/ ~(lastSearch.filters.has \subseteq KnownFilterKeys)) =>
        lastSearch.outcome = "error"

\* C10: the records returned for a document carry the chunk_index values
\* 0..n-1, pairwise distinct and in the order of the chunker's output.
C10_ChunkIndexOrder ==
    processed.held =>
        LET smart_chunks == SmartChunkDocument(processed.doc, processed.content,
                                               processed.doc)
        IN  /\ Len(processed.chunks) = Len(smart_chunks)
            /\ \A i \in DOMAIN processed.chunks :
                  /\ processed.chunks[i].chunk_index = i - 1
                  /\ processed.chunks[i].content = smart_chunks[i].content
            /\ \A i, j \in DOMAIN processed.chunks :
                  i < j => processed.chunks[i].chunk_index
                              < processed.chunks[j].chunk_index

C10_Witness ==
    processed.held /\ Len(processed.chunks) >= 2

\* A relationship of the graph.
Edge(a, b, type) == [source |-> a, target |-> b, type |-> type] \in graph

\* C11: get_entity_dependencies and get_process_flow terminate for every
\* entity on every relationship graph, graphs with a cycle of requires or
\* leads_to edges included: a query that is running eventually returns.
C11_QueriesTerminate == walk.running ~> ~walk.running

\* A dependencies query has returned on a graph where the entity is on a
\* cycle of requires edges through another entity.
C11_Witness ==
    /\ walk.op = "dependencies"
    /\ ~walk.running
    /\ walk.entity \in Range(walk.out)
    /\ Len(walk.out) >= 2

\* C12: validate_combination reports a conflict for a pair A, B of the input
\* exactly when a conflicts_with edge joins them in either direction, reports
\* a missing prerequisite for an input entity exactly when one of its
\* requires targets is not in the input, and valid is true exactly when
\* both lists are empty.
C12_ValidateCombination ==
    walk.op = "validate" =>
        LET v == walk.verdict
        IN  /\ \A a \in walk.entities, b \in walk.entities :
                 (<<a, b>> \in v.conflicts \/ <<b, a>> \in v.conflicts)
                    <=> (Edge(a, b, "conflicts_with") \/ Edge(b, a, "conflicts_with"))
            /\ \A c \in v.conflicts : c[1] \in walk.entities /\ c[2] \in walk.entities
            /\ \A a \in walk.entities :
                 (\E t \in Entities : <<a, t>> \in v.missing_prerequisites)
                    <=> (\E t \in Entities \ walk.entities : Edge(a, t, "requires"))
            /\ \A m \in v.missing_prerequisites :
                 m[1] \in walk.entities /\ m[2] \notin walk.entities
                    /\ Edge(m[1], m[2], "requires")
            /\ v.valid <=> (v.conflicts = {} /\ v.missing_prerequisites = {})

\* A combination was validated whose only conflict edge points from the
\* later entity of the vocabulary to the earlier one, and which misses a
\* prerequisite.
C12_Witness ==
    /\ walk.op = "validate"
    /\ \E a \in walk.entities, b \in walk.entities :
          /\ Position(a) < Position(b)
          /\ Edge(b, a, "conflicts_with")
          /\ ~Edge(a, b, "conflicts_with")
          /\ <<b, a>> \in walk.verdict.conflicts
    /\ walk.verdict.missing_prerequisites # {}
    /\ ~walk.verdict.valid

\* C13: every path that process_flow(entity, max_depth) returns starts at
\* the entity, follows only leads_to edges, has at most max_depth hops and
\* visits no entity twice.
C13_ProcessFlowPaths ==
    walk.op = "process_flow" =>
        \A i \in DOMAIN walk.out :
            LET path == walk.out[i]
            IN  /\ path[1] = walk.entity
                /\ \A k \in 1..(Len(path) - 1) : Edge(path[k], path[k + 1], "leads_to")
                /\ Len(path) - 1 <= walk.max_depth
                /\ \A j \in DOMAIN path, k \in DOMAIN path : path[j] = path[k] => j = k

\* A process_flow query with max_depth 1 has returned a path that stops
\* after one hop although its last entity leads on to a third entity and
\* back to the entity the path starts at.
C13_Witness ==
    /\ walk.op = "process_flow"
    /\ ~walk.running
    /\ walk.max_depth = 1
    /\ \E i \in DOMAIN walk.out :
          LET path == walk.out[i]
          IN  /\ Len(path) = 2
              /\ Edge(path[2], walk.entity, "leads_to")
              /\ \E t \in Entities \ Range(path) : Edge(path[2], t, "leads_to")

\* C14: the freshness score retrieval sees for an indexed document is the
\* score of the day of the search: 1.0 when the most recent dated mention is
\* that day, lower as days pass, 0.0 from 365 days on; the min_freshness
\* filter admits the record exactly when that score reaches the threshold.
C14_RetrievalSeesFreshnessOfToday ==
    (lastFresh.called /\ tracked.held) =>
        LET score == FreshnessAt(tracked.temporal_info, today)
        IN  /\ lastFresh.results # <<>> <=> score >= lastFresh.min_freshness
            /\ \A i \in DOMAIN lastFresh.results :
                  lastFresh.results[i].freshness_score = score

\* C15: is_current of a processed document is false exactly when one of its
\* expiration dates lies strictly before the processing day; without an
\* expiration date, or with one on the processing day or later, it is true.
C15_IsCurrentUnlessExpired ==
    tracked.held =>
        (~tracked.payload.is_current
            <=> \E d \in DatesOf(tracked.temporal_info, "expiration") :
                   d < tracked.ingested_at)

\* A document whose expiration date is the processing day itself was
\* processed and is current.
C15_Witness ==
    /\ tracked.held
    /\ DatesOf(tracked.temporal_info, "expiration") = {tracked.ingested_at}
    /\ tracked.payload.is_current

\* C16: every embedding request, whichever pipeline instance sends it, goes
\* through one throttler shared by the process, and the requests sent within
\* one throttle period never exceed the rate limit.
C16_SharedThrottleBudget ==
    /\ issued <= RateLimit
    /\ \E p \in DOMAIN pipelines : pipelines[p].acquired = issued

\* The result dictionary shows the payload of a point of the collection.
ShowsStoredRecord(result, st) ==
    \E p \in st :
        /\ result.content = p.payload.content
        /\ \A field \in DOMAIN result.metadata :
              result.metadata[field] = p.payload[field]

\* C17: semantic_search_enhanced leaves the collection as it was, whether it
\* finds records or falls back to the empty list, it answers with a list
\* whatever ingestion has done to the collection so far, and every result it
\* returns shows a record that a store_enhanced_chunks call has written.
C17_RetrievalReadOnly ==
    [][(~lastSearch.called /\ lastSearch'.called) =>
          /\ store' = store
          /\ lastSearch'.outcome = "results"
          /\ \A i \in DOMAIN lastSearch'.results :
                ShowsStoredRecord(lastSearch'.results[i], store)]_vars

\* A search has returned a record of a document that the collection holds
\* only in part: its record with chunk_index 0 is gone.
C17_Witness ==
    /\ lastSearch.called
    /\ \E i \in DOMAIN lastSearch.results :
          LET d == lastSearch.results[i].metadata.source_url
          IN  IdxOf(store, d) # {} /\ 0 \notin IdxOf(store, d)

\* C18: when the processing of one document of a batch fails, the records of
\* every other document of the batch are in the enhanced collection after
\* the job.
C18_BatchSurvivesDocumentFailure ==
    (job.ran /\ job.procFail # {}) =>
        \A i \in DOMAIN job.batch :
            i \notin job.procFail =>
                Range(ProcessDocumentEnhanced(job.batch[i].doc, job.batch[i].content,
                                              job.batch[i].doc))
                    \subseteq PayloadsOf(store, job.batch[i].doc)

\* C19: for every text with at least one word the chunker returns at least
\* one chunk, the chunks are in reading order, and every word of the text is
\* in some chunk, also for texts longer than the 500 words of one chunk.
C19_ChunksCoverText ==
    (chunked.called /\ chunked.len_words > 0) =>
        /\ Len(chunked.chunks) >= 1
        /\ \A i \in DOMAIN chunked.chunks, j \in DOMAIN chunked.chunks :
              i < j => chunked.chunks[i].start_word < chunked.chunks[j].start_word
        /\ \A w \in 0..(chunked.len_words - 1) :
              \E i \in DOMAIN chunked.chunks :
                  /\ chunked.chunks[i].start_word <= w
                  /\ w < chunked.chunks[i].end_word

\* C20: a store_enhanced_chunks call whose embedding request or upsert
\* request fails sends that request again at least once before it gives the
\* record or the batch up.
C20_FailureIsRetried ==
    lastStore.called =>
        /\ \A i \in lastStore.embFail : lastStore.embedCalls[i] >= 2
        /\ (lastStore.firstBad # 0 /\ lastStore.upsertCalls > 0)
              => lastStore.upsertCalls >= 2

\* C21: the relationships of a record are exactly the relationships of the
\* document that have an entity of the chunk as source or as target: each of
\* them is listed, no other is listed, and none is listed twice.
C21_RecordRelationshipsExact ==
    enriched.called =>
        \A i \in DOMAIN enriched.records :
            LET record == enriched.records[i]
                entities == Range(record.form_numbers) \cup Range(record.visa_types)
                expected == {RelationshipDict(rel) :
                               rel \in {rel \in Range(enriched.relationships) :
                                           \/ rel.source \in entities
                                           \/ rel.target \in entities}}
            IN  /\ Range(record.relationships) = expected
                /\ Len(record.relationships) = Cardinality(expected)

\* C24: all records of one process_document_enhanced call carry the same
\* temporal data, that of the summary of the whole document (is_current,
\* freshness_score, effective_date, expiration_date, temporal_info), and
\* the temporal extraction ran once for the call, not once per chunk.
C24_SharedTemporalSummary ==
    enriched.called =>
        LET summary == TemporalFields(GetTemporalSummaryAt(enriched.temporal_info, today))
        IN  /\ enriched.extractions = 1
            /\ \A i \in DOMAIN enriched.records :
                  LET record == enriched.records[i]
                  IN  /\ record.is_current = summary.is_current
                      /\ record.freshness_score = summary.freshness_score
                      /\ record.effective_date = summary.effective_date
                      /\ record.expiration_date = summary.expiration_date
                      /\ record.temporal_info = TemporalInfoDicts(enriched.temporal_info)
            /\ \A i, j \in DOMAIN enriched.records :
                  /\ enriched.records[i].is_current = enriched.records[j].is_current
                  /\ enriched.records[i].freshness_score = enriched.records[j].freshness_score
                  /\ enriched.records[i].effective_date = enriched.records[j].effective_date
                  /\ enriched.records[i].expiration_date = enriched.records[j].expiration_date
                  /\ enriched.records[i].temporal_info = enriched.records[j].temporal_info

\* A document of two chunks with an expiration date in the past was
\* processed: both records are not current and carry the two dates.
C24_Witness ==
    /\ enriched.called
    /\ Len(enriched.records) >= 2
    /\ \A i \in DOMAIN enriched.records :
          /\ ~enriched.records[i].is_current
          /\ enriched.records[i].expiration_date = -1
          /\ enriched.records[i].effective_date = -FreshnessHorizon
          /\ enriched.records[i].freshness_score < FreshnessOne

C25_UserPathSteps ==
    userPath.called =>
        LET validation == Validate(graph, userPath.entities)
            steps == userPath.recommended_next_steps
        IN  /\ userPath.valid = validation.valid
            /\ userPath.conflicts = validation.conflicts
            /\ userPath.missing_prerequisites = validation.missing_prerequisites
            /\ \A k \in DOMAIN steps : steps[k].next \notin userPath.entities
            /\ ~userPath.valid => steps = <<Remediation>>
            /\ userPath.valid =>
                  \A k \in DOMAIN steps :
                      /\ steps[k].kind = "consider"
                      /\ steps[k].after \in userPath.entities
                      /\ Edge(steps[k].after, steps[k].next, "leads_to")

\* A valid combination was checked in which one input entity leads to
\* another input entity and to an entity outside the input: the latter is
\* suggested.
C25_Witness ==
    /\ userPath.called
    /\ userPath.valid
    /\ userPath.recommended_next_steps # <<>>
    /\ \E a \in userPath.entities, b \in userPath.entities :
          /\ a # b
          /\ Edge(a, b, "leads_to")
          /\ \E t \in Entities \ userPath.entities : Edge(a, t, "leads_to")

\* C26: get_entity_insights filters on one payload field only, form_numbers
\* for an entity that starts with I-, N- or DS- and visa_types otherwise, so
\* that every stored record that lists the entity in that field and scores
\* at least the threshold is counted in total_mentions.
C26_InsightsFilterOneField ==
    (insight.called /\ insight.fault = "none") =>
        LET field == IF StartsWithFormPrefix(insight.entity)
                     THEN "form_numbers" ELSE "visa_types"
            query_embedding == GenerateEmbedding(InsightQuery(insight.entity), FALSE)
            listed == {p \in store :
                          /\ insight.entity \in p.payload[field]
                          /\ Score(query_embedding, p.vector) >= ScoreThreshold}
        IN  /\ insight.filters.has = {field}
            /\ insight.insights.total_mentions = Cardinality(listed)

\* C27: translate_text caches successful translations so they round-trip:
\* when a call obtained its translation from a provider, the next call with
\* the same text, target and source language made less than CacheLifetime
\* days later returns that same translation and calls no provider.
C27_CachedRoundTrip ==
    [][(/\ translation.last.called
        /\ translation.last.calls > 0
        /\ translation.last.result # translation.last.text
        /\ translation.last.target_lang \in DOMAIN language_mappings
        /\ translation'.last # translation.last
        /\ translation'.last.text = translation.last.text
        /\ translation'.last.target_lang = translation.last.target_lang
        /\ translation'.last.source_lang = translation.last.source_lang
        /\ translation'.last.at - translation.last.at < CacheLifetime)
       => /\ translation'.last.result = translation.last.result
          /\ translation'.last.calls = 0]_vars

\* C28: vectorize_batch_safe prevents duplicate content: after a run, no two
\* points it inserted share a content_hash, and no point it inserted has a
\* content_hash the collection already held before the run.
C28_NoDuplicateContent ==
    safeBatch.ran =>
        /\ \A p, q \in safeBatch.inserted :
              p # q => p.content_hash # q.content_hash
        /\ \A p \in safeBatch.inserted : p.content_hash \notin safeBatch.before

\* C29: for a user on a plan with a monthly avatar-minute limit, the overage
\* charges recorded in the month equal overage_rate times the minutes used
\* above the limit: max(0, minutes used - limit).
C29_OverageChargedOnce ==
    \A user_id \in DOMAIN UserTier :
        LET tier_limits == get_tier_limits(UserTier[user_id])
            used == MonthlyTotal(avatar.usage[user_id], "avatar_minutes_used",
                                 MaxUsageDays)
            charged == MonthlyTotal(avatar.usage[user_id], "overage_charges",
                                    MaxUsageDays)
            above == IF used > tier_limits.limits.avatar_minutes
                     THEN used - tier_limits.limits.avatar_minutes ELSE 0
        IN  tier_limits.limits.avatar_minutes > 0 =>
                charged = tier_limits.overage_rate * above

\* C30: for a free-tier user no interleaving of ai_chat requests (use_feature
\* or ask_worldwide_question) drives daily_questions_used above the daily
\* limit of 5, and a request is counted only when the count it observes is
\* below the limit.
C30_DailyQuotaEnforced ==
    [][\A day \in 1..MaxQuotaDays :
          /\ quota'.daily_questions_used[day] <= 5
          /\ quota'.daily_questions_used[day] # quota.daily_questions_used[day]
             => /\ quota.daily_questions_used[day] < 5
                /\ quota'.daily_questions_used[day]
                       = quota.daily_questions_used[day] + 1
                /\ quota'.last.observed = quota.daily_questions_used[day]]_vars

\* A request is refused at 5 questions while another request is received
\* and waits for its turn, on a day after one that was used up as well.
C30_Witness ==
    /\ quota.last = [called |-> TRUE, allowed |-> FALSE, observed |-> 5]
    /\ quota.day > 1
    /\ \A day \in 1..quota.day : quota.daily_questions_used[day] = 5
    /\ \E r \in 1..NumRequests : quota.requests[r].pc = "received"

====
